---------------------------- MODULE Spec2Model ----------------------------
(***************************************************************************)
(* A model of the tequila crate (src/src/lib.rs) and of its derive macro   *)
(* (src/tequila_macros/src/lib.rs, src/tequila_macros/src/config.rs).      *)
(*                                                                         *)
(* A text is a sequence of one-character strings.  A HashMap<String,       *)
(* String> is a set of <<key, value>> pairs with pairwise distinct keys.   *)
(* A Result is a record with a boolean field ok.                           *)
(***************************************************************************)
EXTENDS Naturals, Sequences, FiniteSets

VARIABLES
    text,        \* build_hashmap: the response text handed to it
    decoded,     \* build_hashmap: its result, once it has run
    fields,      \* generated binding: the Field list the macro collected
    attributes,  \* generated binding: the map handed to from_tequila_attributes
    constructed, \* generated binding: the result of from_tequila_attributes
    handle,      \* session: per transaction, the TequilaRequest value alive
    binding,     \* session: per transaction, the type parameter A (its fields)
    created,     \* session: per transaction, the call of TequilaRequest::new
    fetched,     \* session: per transaction, the call of fetch_attributes
    posts,       \* session: per transaction, the POSTs sent, in order
    observed,    \* session: per transaction, what attributes() returned last
    panicked,    \* session: whether an unwrap() of attributes() hit None
    CONFIG,      \* macro: the OnceLock<Option<TequilaConfig>>
    pc,          \* macro: per task, where its derive invocation stands
    input,       \* macro: per task, the struct the derive is applied to
    idx,         \* macro: per task, the index of the field being examined
    collected,   \* macro: per task, the Fields collected so far
    diags,       \* macro: per task, the errors emitted so far
    warned,      \* macro: per task, whether the fetch warning was emitted
    config,      \* macro: per task, the result of its own TequilaConfig::fetch
    output,      \* macro: per task, what the derive invocation produced
    fetches,     \* macro: the number of GETs of getconfig so far
    returned,    \* macro: the values get_config has returned so far
    failed_call, \* macro: whether a get_config whose own fetch failed returned
    args,        \* create_request: the arguments it is called with
    sent,        \* create_request: the pairs and the body it posts, once called
    declared,    \* field classification: the declared type of a field
    classified   \* field classification: the FieldType and the errors, once run

decodeVars == <<text, decoded>>
bindingVars == <<fields, attributes, constructed>>
sessionVars == <<handle, binding, created, fetched, posts, observed, panicked>>

macroVars == <<CONFIG, pc, input, idx, collected, diags, warned, config, output,
               fetches, returned, failed_call>>

bodyVars == <<args, sent>>
typeVars == <<declared, classified>>

vars == <<decodeVars, bindingVars, sessionVars, macroVars, bodyVars, typeVars>>

-----------------------------------------------------------------------------
(* Bounds of the model.                                                    *)

\* longest response text handed to build_hashmap
MaxLen == 7
\* most fields of a record the macro is applied to
MaxFields == 3
\* number of authentication transactions
MaxTx == 2
\* number of tasks that run the derive macro
MaxTasks == 2
\* most keys in the request list and in the wish list of create_request
MaxAttrs == 2
\* most segments of the path of a declared type
MaxSegments == 3

-----------------------------------------------------------------------------
(* Texts.                                                                  *)

LF == "\n"
EQ == "="
COMMA == ","

\* str::split(c): the segments between the occurrences of c; n occurrences
\* give n + 1 segments, so the empty text gives one empty segment.
RECURSIVE split(_, _)
split(s, c) ==
    IF \A i \in 1..Len(s) : s[i] # c
    THEN <<s>>
    ELSE LET i == CHOOSE j \in 1..Len(s) :
                      s[j] = c /\ \A k \in 1..(j - 1) : s[k] # c
         IN  <<SubSeq(s, 1, i - 1)>> \o split(SubSeq(s, i + 1, Len(s)), c)

\* str::split_once(c): None without c, else the text before the first c and
\* the text after it.
split_once(s, c) ==
    IF \A i \in 1..Len(s) : s[i] # c
    THEN [some |-> FALSE, key |-> <<>>, value |-> <<>>]
    ELSE LET i == CHOOSE j \in 1..Len(s) :
                      s[j] = c /\ \A k \in 1..(j - 1) : s[k] # c
         IN  [some |-> TRUE,
              key |-> SubSeq(s, 1, i - 1),
              value |-> SubSeq(s, i + 1, Len(s))]

\* Iterator::filter(|s| !s.is_empty()) over a sequence of texts
RECURSIVE filter_non_empty(_)
filter_non_empty(ss) ==
    IF ss = <<>> THEN <<>>
    ELSE IF Len(Head(ss)) = 0 THEN filter_non_empty(Tail(ss))
    ELSE <<Head(ss)>> \o filter_non_empty(Tail(ss))

-----------------------------------------------------------------------------
(* HashMap<String, String>.                                                *)

EmptyMap == {}

contains_key(map, k) == \E p \in map : p[1] = k

\* HashMap::get(k).unwrap(), where contains_key(map, k)
get(map, k) == (CHOOSE p \in map : p[1] = k)[2]

\* a variant of insert that keeps the entry k already has
insert_keeps_first(map, k, v) ==
    IF contains_key(map, k) THEN map ELSE map \cup {<<k, v>>}

\* HashMap::insert: the entry of k is replaced
insert(map, k, v) == {p \in map : p[1] # k} \cup {<<k, v>>}

keys(map) == {p[1] : p \in map}

-----------------------------------------------------------------------------
(* TequilaError.                                                           *)

InvalidResponse == [kind |-> "InvalidResponse", missing |-> <<>>]
RequestError == [kind |-> "RequestError", missing |-> <<>>]
MissingAttributes(m) == [kind |-> "MissingAttributes", missing |-> m]

-----------------------------------------------------------------------------
(* build_hashmap.                                                          *)

OkMap(map) == [ok |-> TRUE, map |-> map, err |-> InvalidResponse]
ErrMap(e) == [ok |-> FALSE, map |-> EmptyMap, err |-> e]

\* one step of the fold: the accumulator and the split_once of one line
fold_step(acc, opt) ==
    IF acc.ok /\ opt.some THEN OkMap(insert(acc.map, opt.key, opt.value))
    ELSE IF ~acc.ok THEN acc
    ELSE ErrMap(InvalidResponse)

RECURSIVE fold_lines(_, _)
fold_lines(acc, lines) ==
    IF lines = <<>> THEN acc
    ELSE fold_lines(fold_step(acc, split_once(Head(lines), EQ)), Tail(lines))

build_hashmap(str) ==
    fold_lines(OkMap(EmptyMap), filter_non_empty(split(str, LF)))


-----------------------------------------------------------------------------
(* The binding generated by derive(FromTequilaAttributes).                 *)
(* A Field is [attribute, type]: the key the field reads and its           *)
(* FieldType, "Other", "Option" or "Vec".                                  *)

\* a field's temporary: an Option<String> (Other), a string (Option) or a
\* collection of strings (Vec)
FieldValue(some, scalar, list) == [some |-> some, scalar |-> scalar, list |-> list]

\* Option<&String>::unwrap_or_default(): the value, or the empty string
unwrap_or_default(map, k) == IF contains_key(map, k) THEN get(map, k) ELSE <<>>

\* field_variables: the temporary f{i} of one field
field_variable(f, map) ==
    IF f.type = "Other"
    THEN IF contains_key(map, f.attribute)
         THEN FieldValue(TRUE, get(map, f.attribute), <<>>)
         ELSE FieldValue(FALSE, <<>>, <<>>)
    ELSE IF f.type = "Option"
    THEN FieldValue(TRUE, unwrap_or_default(map, f.attribute), <<>>)
    ELSE FieldValue(TRUE, <<>>, split(unwrap_or_default(map, f.attribute), COMMA))

\* a variant of push_missing that records the first missing key only
push_missing_first_only(missing, f, map) ==
    IF f.type = "Other" /\ ~contains_key(map, f.attribute) /\ missing = <<>>
    THEN Append(missing, f.attribute)
    ELSE missing

\* field_variables: what one field does to the Vec missing
push_missing(missing, f, map) ==
    IF f.type = "Other" /\ ~contains_key(map, f.attribute)
    THEN Append(missing, f.attribute)
    ELSE missing

RECURSIVE collect_missing(_, _, _)
collect_missing(missing, fs, map) ==
    IF fs = <<>> THEN missing
    ELSE collect_missing(push_missing(missing, Head(fs), map), Tail(fs), map)

OkRecord(rec) == [ok |-> TRUE, record |-> rec, err |-> InvalidResponse]
ErrRecord(e) == [ok |-> FALSE, record |-> <<>>, err |-> e]

\* the generated from_tequila_attributes of a record with the fields fs
from_tequila_attributes(fs, map) ==
    LET missing == collect_missing(<<>>, fs, map)
    IN  IF missing = <<>>
        THEN OkRecord([i \in 1..Len(fs) |-> field_variable(fs[i], map)])
        ELSE ErrRecord(MissingAttributes(missing))

-----------------------------------------------------------------------------
(* The API calls: send_request, create_request, fetch_attributes.          *)

K_key == <<"k", "e", "y">>
K_auth_check == <<"a", "u", "t", "h", "_", "c", "h", "e", "c", "k">>
K_urlaccess == <<"u", "r", "l", "a", "c", "c", "e", "s", "s">>
K_service == <<"s", "e", "r", "v", "i", "c", "e">>
K_mode_auth_check ==
    <<"m", "o", "d", "e", "_", "a", "u", "t", "h", "_", "c", "h", "e", "c", "k">>
K_request == <<"r", "e", "q", "u", "e", "s", "t">>
K_wish == <<"w", "i", "s", "h">>
K_require == <<"r", "e", "q", "u", "i", "r", "e">>
K_allow == <<"a", "l", "l", "o", "w">>
K_language == <<"l", "a", "n", "g", "u", "a", "g", "e">>

None == [some |-> FALSE, value |-> <<>>]
Some(v) == [some |-> TRUE, value |-> v]

\* [String]::join(sep)
RECURSIVE join(_, _)
join(list, sep) ==
    IF list = <<>> THEN <<>>
    ELSE IF Len(list) = 1 THEN Head(list)
    ELSE Head(list) \o sep \o join(Tail(list), sep)

\* the body send_request posts: "\n{key}={value}" for each pair, in order
RECURSIVE encode_body(_)
encode_body(pairs) ==
    IF pairs = <<>> THEN <<>>
    ELSE <<LF>> \o Head(pairs)[1] \o <<EQ>> \o Head(pairs)[2]
             \o encode_body(Tail(pairs))

\* the implementations of FromTequilaAttributes: CreateRequestResponse, and
\* the binding the macro generates for a record with the fields fs
CreateRequestResponse == [impl |-> "CreateRequestResponse", fields |-> <<>>]
Derived(fs) == [impl |-> "Derived", fields |-> fs]

\* a variant of create_request_response that defaults a missing key
create_request_response_default(map) ==
    OkRecord(IF contains_key(map, K_key) THEN get(map, K_key) ELSE <<>>)

\* CreateRequestResponse::from_tequila_attributes
create_request_response(map) ==
    IF contains_key(map, K_key)
    THEN OkRecord(get(map, K_key))
    ELSE ErrRecord(InvalidResponse)

\* R::from_tequila_attributes
construct(R, map) ==
    IF R.impl = "CreateRequestResponse"
    THEN create_request_response(map)
    ELSE from_tequila_attributes(R.fields, map)

\* A::requested_attributes() and A::wished_attributes() of a generated binding
RECURSIVE requested_attributes(_)
requested_attributes(fs) ==
    IF fs = <<>> THEN <<>>
    ELSE (IF Head(fs).type = "Other" THEN <<Head(fs).attribute>> ELSE <<>>)
             \o requested_attributes(Tail(fs))

RECURSIVE wished_attributes(_)
wished_attributes(fs) ==
    IF fs = <<>> THEN <<>>
    ELSE (IF Head(fs).type \in {"Option", "Vec"}
          THEN <<Head(fs).attribute>> ELSE <<>>)
             \o wished_attributes(Tail(fs))

\* the transport's answer to one POST: an error, or the response text
NetError == [ok |-> FALSE, text |-> <<>>]
NetText(t) == [ok |-> TRUE, text |-> t]

\* a variant of send_request_run that constructs from the empty map when the
\* response does not decode
send_request_run_lenient(R, net) ==
    IF ~net.ok THEN [steps |-> <<>>, result |-> ErrRecord(RequestError)]
    ELSE LET map == build_hashmap(net.text)
         IN  [steps |-> <<"build_hashmap", "from_tequila_attributes">>,
              result |-> construct(R, IF map.ok THEN map.map ELSE EmptyMap)]

\* send_request::<R>, given the transport's answer to its POST: what it
\* calls on the response, in order, and what it returns
send_request_run(R, net) ==
    IF ~net.ok THEN [steps |-> <<>>, result |-> ErrRecord(RequestError)]
    ELSE LET map == build_hashmap(net.text)
         IN  IF ~map.ok
             THEN [steps |-> <<"build_hashmap">>, result |-> ErrRecord(map.err)]
             ELSE [steps |-> <<"build_hashmap", "from_tequila_attributes">>,
                   result |-> construct(R, map.map)]

\* the value send_request::<R> returns
send_request(R, net) == send_request_run(R, net).result

\* a variant of create_request_pairs that pushes request and wish even when
\* their lists are empty
create_request_pairs_unconditional(url, service, request, wish, require, allow, language) ==
    <<  <<K_urlaccess, url>>,
        <<K_service, service>>,
        <<K_mode_auth_check, <<"1">>>>,
        <<K_request, join(request, <<COMMA>>)>>,
        <<K_wish, join(wish, <<COMMA>>)>>  >>
    \o (IF require.some THEN << <<K_require, require.value>> >> ELSE <<>>)
    \o (IF allow.some THEN << <<K_allow, allow.value>> >> ELSE <<>>)
    \o (IF language.some THEN << <<K_language, language.value>> >> ELSE <<>>)

\* the pairs create_request hands to send_request
create_request_pairs(url, service, request, wish, require, allow, language) ==
    <<  <<K_urlaccess, url>>,
        <<K_service, service>>,
        <<K_mode_auth_check, <<"1">>>>  >>
    \o (IF request # <<>> THEN << <<K_request, join(request, <<COMMA>>)>> >> ELSE <<>>)
    \o (IF wish # <<>> THEN << <<K_wish, join(wish, <<COMMA>>)>> >> ELSE <<>>)
    \o (IF require.some THEN << <<K_require, require.value>> >> ELSE <<>>)
    \o (IF allow.some THEN << <<K_allow, allow.value>> >> ELSE <<>>)
    \o (IF language.some THEN << <<K_language, language.value>> >> ELSE <<>>)

\* create_request: the request key of the response, or the error
create_request(net) == send_request(CreateRequestResponse, net)

\* the pairs fetch_attributes hands to send_request
fetch_attributes_pairs(key, auth_check) ==
    << <<K_key, key>>, <<K_auth_check, auth_check>> >>

\* fetch_attributes::<A>
fetch_attributes(A, net) == send_request(A, net)

\* one POST: the route and the body
Post(route, pairs) == [route |-> route, body |-> encode_body(pairs)]

-----------------------------------------------------------------------------
(* TequilaRequest<A, S>.                                                   *)

\* no TequilaRequest value exists: none was made, or it was moved out of
NoHandle == [state |-> "None", key |-> <<>>, attributes |-> None]

\* the value TequilaRequest::new returns on success
WaitingLoginHandle(key) ==
    [state |-> "WaitingLogin", key |-> key, attributes |-> None]

\* a variant of LoggedInHandle that leaves the attributes unset
LoggedInHandle_no_attributes(self, attrs) ==
    [state |-> "LoggedIn", key |-> self.key, attributes |-> None]

\* a variant of LoggedInHandle that does not carry the key over
LoggedInHandle_key_lost(self, attrs) ==
    [state |-> "LoggedIn", key |-> <<>>, attributes |-> Some(attrs)]

\* the value TequilaRequest::fetch_attributes returns on success
LoggedInHandle(self, attrs) ==
    [state |-> "LoggedIn", key |-> self.key, attributes |-> Some(attrs)]

\* a variant of FailedFetchHandle for a fetch that borrows self
FailedFetchHandle_kept(self) == self

\* what is left of self when TequilaRequest::fetch_attributes fails: it took
\* self by value, so nothing
FailedFetchHandle(self) == NoHandle

-----------------------------------------------------------------------------
(* Inputs of the two pure functions.                                       *)

Alphabet == {"a", "b", EQ, LF}
Texts == UNION {[1..n -> Alphabet] : n \in 0..MaxLen}

AttributeKeys == {<<"a">>, <<"b">>}
AttributeValues == {<<>>, <<"a">>, <<"a", COMMA, "b">>}
FieldTypes == {"Other", "Option", "Vec"}
Fields == [attribute : AttributeKeys, type : FieldTypes]
FieldLists == UNION {[1..n -> Fields] : n \in 0..MaxFields}
\* every map from some of the keys to values
AttributeMaps ==
    UNION {{{<<k, v[k]>> : k \in ks} : v \in [ks -> AttributeValues]} :
           ks \in SUBSET AttributeKeys}

NotRun == [run |-> FALSE, res |-> ErrMap(InvalidResponse)]
NotConstructed == [run |-> FALSE, res |-> ErrRecord(InvalidResponse)]

-----------------------------------------------------------------------------
(* TequilaConfig (config.rs).  The answer to getconfig is a sequence of    *)
(* lines; a line "label:value" is [label, value], its label the text       *)
(* before its first ":" and its value a text.                              *)

SPACE == " "

\* the labels from_string extracts, in the order it extracts them
ConfigLabels ==
    << "Organization", "Server", "Domain", "Manager", "Cookies",
       "Support certificates", "Default language",
       "Supported user attributes ", "Server certificate" >>

\* str::trim(): without its leading and trailing spaces
RECURSIVE trim(_)
trim(s) ==
    IF s = <<>> THEN s
    ELSE IF Head(s) = SPACE THEN trim(Tail(s))
    ELSE IF s[Len(s)] = SPACE THEN trim(SubSeq(s, 1, Len(s) - 1))
    ELSE s

has_entry(lines, name) == \E i \in 1..Len(lines) : lines[i].label = name

\* extract_value(lines, name).unwrap(), where has_entry(lines, name): the
\* trimmed value of the first line that starts with "{name}:"
extract_value(lines, name) ==
    LET i == CHOOSE j \in 1..Len(lines) :
                 lines[j].label = name /\ \A k \in 1..(j - 1) : lines[k].label # name
    IN  trim(lines[i].value)

NoTequilaConfig == [values |-> <<>>, attributes |-> <<>>]

MissingEntry(name) == [kind |-> "MissingEntry", name |-> name]
ConfigRequestError == [kind |-> "Request", name |-> ""]

OkConfig(cfg) == [ok |-> TRUE, cfg |-> cfg, err |-> ConfigRequestError]
ErrConfig(e) == [ok |-> FALSE, cfg |-> NoTequilaConfig, err |-> e]

\* TequilaConfig::from_string: the first label without a line is the error
from_string(lines) ==
    LET absent == {i \in 1..Len(ConfigLabels) : ~has_entry(lines, ConfigLabels[i])}
    IN  IF absent # {}
        THEN ErrConfig(MissingEntry(
                 ConfigLabels[CHOOSE i \in absent : \A j \in absent : i <= j]))
        ELSE OkConfig(
                 [values |-> [i \in 1..Len(ConfigLabels) |->
                                  extract_value(lines, ConfigLabels[i])],
                  attributes |->
                      split(extract_value(lines, "Supported user attributes "),
                            SPACE)])

\* the transport's answer to the GET of getconfig
GetError == [ok |-> FALSE, lines |-> <<>>]
GetLines(lines) == [ok |-> TRUE, lines |-> lines]

\* TequilaConfig::fetch(TEQUILA_URL), given the transport's answer
fetch(net) == IF ~net.ok THEN ErrConfig(ConfigRequestError) ELSE from_string(net.lines)

-----------------------------------------------------------------------------
(* The static CONFIG and get_config (tequila_macros/src/lib.rs).           *)

NoConfig == [some |-> FALSE, cfg |-> NoTequilaConfig]
SomeConfig(cfg) == [some |-> TRUE, cfg |-> cfg]

\* OnceLock::new()
Unset == [set |-> FALSE, value |-> NoConfig]

\* Result::ok()
ok(result) == IF result.ok THEN SomeConfig(result.cfg) ELSE NoConfig

\* a variant of get_or_init that stores the caller's value in a set cell
get_or_init_overwrites(cell, value) == [set |-> TRUE, value |-> value]

\* OnceLock::get_or_init(|| value): the cell afterwards
get_or_init(cell, value) ==
    IF cell.set THEN cell ELSE [set |-> TRUE, value |-> value]

-----------------------------------------------------------------------------
(* derive_from_tequila_attributes: the struct it is given is               *)
(* [attr, fields]; a field is [ident, attr, ty].                           *)

BAR == "|"

\* OPTION_PATHES and VEC_PATHES: (pattern, whether a leading :: is required)
OPTION_PATHES ==
    << [pattern |-> <<"O", "p", "t", "i", "o", "n">>, colon |-> FALSE],
       [pattern |-> <<"s", "t", "d", BAR, "o", "p", "t", "i", "o", "n", BAR,
                      "O", "p", "t", "i", "o", "n">>, colon |-> TRUE],
       [pattern |-> <<"c", "o", "r", "e", BAR, "o", "p", "t", "i", "o", "n", BAR,
                      "O", "p", "t", "i", "o", "n">>, colon |-> TRUE] >>
VEC_PATHES ==
    << [pattern |-> <<"V", "e", "c">>, colon |-> FALSE],
       [pattern |-> <<"s", "t", "d", BAR, "v", "e", "c", BAR, "V", "e", "c", BAR>>,
        colon |-> TRUE],
       [pattern |-> <<"a", "l", "l", "o", "c", BAR, "v", "e", "c", BAR,
                      "V", "e", "c">>, colon |-> TRUE] >>

\* compare_pathes(pathes, path); a path is [leading_colon, segments]
compare_pathes(pathes, path) ==
    \E i \in 1..Len(pathes) :
        LET parts == split(pathes[i].pattern, BAR)
        IN  /\ Len(parts) = Len(path.segments)
            /\ \A j \in 1..Len(parts) : parts[j] = path.segments[j]
            /\ (path.leading_colon \/ ~pathes[i].colon)

\* the FieldType of a declared type; a type that is no path is "Other" too
field_type(ty) ==
    IF ~ty.is_path THEN "Other"
    ELSE IF compare_pathes(OPTION_PATHES, ty) THEN "Option"
    ELSE IF compare_pathes(VEC_PATHES, ty) THEN "Vec"
    ELSE "Other"

\* whether the struct's attribute leaves the check against CONFIG on
check_config(st) == st.attr # "no_check"

\* a variant of field_key that ignores the #[tequila("key")] of the field
field_key_ignores_override(f) == f.ident

\* the key a field takes its value from: its #[tequila("key")], else its name
field_key(f) == IF f.attr.kind = "lit" THEN Some(f.attr.value) ELSE f.ident

InvalidAttribute(key, available) ==
    [kind |-> "Invalid attribute", key |-> key, note |-> available]
OtherError(kind) == [kind |-> kind, key |-> <<>>, note |-> <<>>]

\* the errors one field emits once its key is resolved; cfg is what
\* get_config returned, when the check is on
field_errors(st, f, cfg) ==
    (IF /\ check_config(st)
        /\ field_key(f).some
        /\ cfg.some
        /\ \A i \in 1..Len(cfg.cfg.attributes) :
               cfg.cfg.attributes[i] # field_key(f).value
     THEN {InvalidAttribute(field_key(f).value, cfg.cfg.attributes)}
     ELSE {})
    \cup (IF ~f.ty.is_path THEN {OtherError("Unsupported type")} ELSE {})

\* the Field collected for a field of the struct
make_field(f) ==
    [name |-> f.ident,
     attribute |-> IF field_key(f).some THEN field_key(f).value ELSE <<>>,
     type |-> field_type(f.ty)]

\* Ident::new(key) panics unless key is an identifier
is_ident(key) == key # <<>>

NoOutput == [kind |-> "none", fields |-> <<>>]

\* what the invocation leaves: a panic of Ident::new, the emitted errors (and
\* the dummy implementation), or the generated binding
derive_output(fs, errors) ==
    IF \E i \in 1..Len(fs) : ~is_ident(fs[i].attribute)
    THEN [kind |-> "panic", fields |-> <<>>]
    ELSE IF errors # {} THEN [kind |-> "errors", fields |-> <<>>]
    ELSE [kind |-> "binding", fields |-> fs]

-----------------------------------------------------------------------------
(* The states in which a part of the program has not run.                  *)

Tx == 1..MaxTx

NotCreated == [called |-> FALSE, net |-> NetError, ok |-> FALSE, key |-> <<>>,
               err |-> InvalidResponse, steps |-> <<>>]
NotFetched == [called |-> FALSE, auth_check |-> <<>>, net |-> NetError,
               ok |-> FALSE, err |-> InvalidResponse, steps |-> <<>>]

IdleDecode == text = <<>> /\ decoded = NotRun

IdleBinding ==
    /\ fields = <<>>
    /\ attributes = EmptyMap
    /\ constructed = NotConstructed

InitSessionVars ==
    /\ handle = [t \in Tx |-> NoHandle]
    /\ binding = [t \in Tx |-> Derived(<<>>)]
    /\ created = [t \in Tx |-> NotCreated]
    /\ fetched = [t \in Tx |-> NotFetched]
    /\ posts = [t \in Tx |-> <<>>]
    /\ observed = [t \in Tx |-> None]
    /\ panicked = FALSE

IdleSession == InitSessionVars

Tasks == 1..MaxTasks

NoStruct == [attr |-> "none", fields |-> <<>>]

InitMacroVars ==
    /\ CONFIG = Unset
    /\ pc = [t \in Tasks |-> "idle"]
    /\ input = [t \in Tasks |-> NoStruct]
    /\ idx = [t \in Tasks |-> 1]
    /\ collected = [t \in Tasks |-> <<>>]
    /\ diags = [t \in Tasks |-> {}]
    /\ warned = [t \in Tasks |-> FALSE]
    /\ config = [t \in Tasks |-> ErrConfig(ConfigRequestError)]
    /\ output = [t \in Tasks |-> NoOutput]
    /\ fetches = 0
    /\ returned = {}
    /\ failed_call = FALSE

IdleMacro == InitMacroVars

NoArgs == [url |-> <<>>, service |-> <<>>, request |-> <<>>, wish |-> <<>>,
           require |-> None, allow |-> None, language |-> None]
NotSent == [run |-> FALSE, pairs |-> <<>>, body |-> <<>>]

IdleBody == args = NoArgs /\ sent = NotSent

NoType == [is_path |-> FALSE, leading_colon |-> FALSE, segments |-> <<>>]
NotClassified == [run |-> FALSE, type |-> "Other", errors |-> {}]

IdleType == declared = NoType /\ classified = NotClassified

-----------------------------------------------------------------------------
(* build_hashmap applied to a text.                                        *)

InitDecode ==
    /\ text \in Texts
    /\ decoded = NotRun
    /\ IdleBinding
    /\ IdleSession
    /\ IdleMacro
    /\ IdleBody
    /\ IdleType

Decode ==
    /\ ~decoded.run
    /\ decoded' = [run |-> TRUE, res |-> build_hashmap(text)]
    /\ UNCHANGED <<text, bindingVars, sessionVars, macroVars,
                   bodyVars, typeVars>>

SpecDecode == InitDecode /\ [][Decode]_vars

-----------------------------------------------------------------------------
(* The generated from_tequila_attributes applied to a map.                 *)

InitBinding ==
    /\ fields \in FieldLists
    /\ attributes \in AttributeMaps
    /\ constructed = NotConstructed
    /\ IdleDecode
    /\ IdleSession
    /\ IdleMacro
    /\ IdleBody
    /\ IdleType

Construct ==
    /\ ~constructed.run
    /\ constructed' = [run |-> TRUE,
                       res |-> from_tequila_attributes(fields, attributes)]
    /\ UNCHANGED <<fields, attributes, decodeVars, sessionVars, macroVars,
                   bodyVars, typeVars>>

SpecBinding == InitBinding /\ [][Construct]_vars

-----------------------------------------------------------------------------
(* Claims about build_hashmap (SpecDecode).                                *)

\* the lines of text by position: a line starts at 1 and after every LF
LineStarts == {i \in 1..(Len(text) + 1) : i = 1 \/ text[i - 1] = LF}
LineEnd(i) == CHOOSE j \in i..(Len(text) + 1) :
                  /\ j = Len(text) + 1 \/ text[j] = LF
                  /\ \A k \in i..(j - 1) : text[k] # LF
NonEmptyLines == {i \in LineStarts : LineEnd(i) > i}
HasEq(i) == \E k \in i..(LineEnd(i) - 1) : text[k] = EQ
FirstEq(i) == CHOOSE k \in i..(LineEnd(i) - 1) :
                  text[k] = EQ /\ \A m \in i..(k - 1) : text[m] # EQ
KeyAt(i) == SubSeq(text, i, FirstEq(i) - 1)
ValueAt(i) == SubSeq(text, FirstEq(i) + 1, LineEnd(i) - 1)

\* C10: build_hashmap ignores empty lines; a non-empty line without "=" makes
\* the result InvalidResponse whatever the other lines are; otherwise the map
\* holds exactly the keys before the first "=" of the non-empty lines, each
\* with the text after the first "=" of the last line that has this key.
C10_Decode ==
    decoded.run =>
        IF \E i \in NonEmptyLines : ~HasEq(i)
        THEN ~decoded.res.ok /\ decoded.res.err = InvalidResponse
        ELSE /\ decoded.res.ok
             /\ keys(decoded.res.map) = {KeyAt(i) : i \in NonEmptyLines}
             /\ Cardinality(decoded.res.map) = Cardinality(keys(decoded.res.map))
             /\ \A i \in NonEmptyLines :
                    (\A j \in NonEmptyLines : j > i => KeyAt(j) # KeyAt(i))
                        => <<KeyAt(i), ValueAt(i)>> \in decoded.res.map

\* build_hashmap has run on a text with an empty line and two lines of the
\* same key and different values
C10_Witness ==
    /\ decoded.run
    /\ decoded.res.ok
    /\ \E i \in LineStarts : LineEnd(i) = i
    /\ \E i, j \in NonEmptyLines :
           i < j /\ KeyAt(i) = KeyAt(j) /\ ValueAt(i) # ValueAt(j)

-----------------------------------------------------------------------------
(* Claims about the generated from_tequila_attributes (SpecBinding).       *)

FieldIndexes == 1..Len(fields)
AbsentMandatory ==
    {fields[i].attribute : i \in {j \in FieldIndexes :
        fields[j].type = "Other" /\ fields[j].attribute \notin keys(attributes)}}
Elements(seq) == {seq[i] : i \in 1..Len(seq)}

\* C8: from_tequila_attributes fails exactly when the key of a mandatory
\* field is absent from the map; the error is then MissingAttributes with
\* every absent mandatory key and no other key; a record it returns has every
\* field, each mandatory one holding the value of its key.
C8_MissingAll ==
    constructed.run =>
        /\ constructed.res.ok <=> AbsentMandatory = {}
        /\ ~constructed.res.ok =>
               /\ constructed.res.err.kind = "MissingAttributes"
               /\ Elements(constructed.res.err.missing) = AbsentMandatory
        /\ constructed.res.ok =>
               /\ Len(constructed.res.record) = Len(fields)
               /\ \A i \in FieldIndexes :
                      fields[i].type = "Other" =>
                          /\ constructed.res.record[i].some
                          /\ constructed.res.record[i].scalar
                                 = get(attributes, fields[i].attribute)

\* from_tequila_attributes has failed on a map that lacks the keys of two
\* mandatory fields and holds the key of no optional field
C8_Witness ==
    /\ constructed.run
    /\ ~constructed.res.ok
    /\ Cardinality(AbsentMandatory) = 2
    /\ \E i \in FieldIndexes : fields[i].type # "Other"

\* C9: on a map with every mandatory key and none of the optional or
\* multivalued keys, from_tequila_attributes succeeds, every Option field is
\* the empty string and every Vec field has zero elements.
C9_EmptyDefaults ==
    ( /\ constructed.run
      /\ \A i \in FieldIndexes :
             fields[i].type = "Other" <=> fields[i].attribute \in keys(attributes) )
    =>  /\ constructed.res.ok
        /\ \A i \in FieldIndexes :
               /\ fields[i].type = "Option" =>
                      constructed.res.record[i].scalar = <<>>
               /\ fields[i].type = "Vec" =>
                      Len(constructed.res.record[i].list) = 0

\* the part of C9 the generated code does satisfy: the call succeeds and
\* every Option field is the empty string
C9_OptionDefaults ==
    ( /\ constructed.run
      /\ \A i \in FieldIndexes :
             fields[i].type = "Other" <=> fields[i].attribute \in keys(attributes) )
    =>  /\ constructed.res.ok
        /\ \A i \in FieldIndexes :
               fields[i].type = "Option" => constructed.res.record[i].scalar = <<>>

-----------------------------------------------------------------------------
(* The session: TequilaRequest::new, then fetch_attributes, per            *)
(* transaction.  The transport answers each POST with an error or a text.  *)

ReturnUrl == <<"u">>
ServiceName == <<"s">>
AuthChecks == {<<"c">>}

\* the records A of the session: their generated bindings
SessionBindings ==
    { Derived(<<[attribute |-> <<"a">>, type |-> "Other"]>>),
      Derived(<<[attribute |-> <<"a">>, type |-> "Other"],
                [attribute |-> <<"b">>, type |-> "Vec"]>>) }

\* answers to createrequest: a key, a line without "=", nothing, no key
\* entry, two key lines, a key line and a line without "="
CreateResponses ==
    { K_key \o <<EQ, "a">>,
      K_key,
      <<>>,
      <<"b", EQ, "a">>,
      K_key \o <<EQ, "a", LF>> \o K_key \o <<EQ, "b">>,
      K_key \o <<EQ, "a", LF, "b">> }

\* answers to fetchattributes
FetchResponses ==
    { <<"a", EQ, "b">>,
      <<>>,
      <<"b">>,
      <<"b", EQ, "a", COMMA, "b">>,
      <<"a", EQ, "a", LF, "b", EQ, "a", COMMA, "b">> }

CreateAnswers == {NetError} \cup {NetText(t) : t \in CreateResponses}
FetchAnswers == {NetError} \cup {NetText(t) : t \in FetchResponses}

InitSession ==
    InitSessionVars /\ IdleDecode /\ IdleBinding /\ IdleMacro /\ IdleBody /\ IdleType

\* TequilaRequest::new::<A>(return_url, service_name)
New(t, A, net) ==
    /\ ~created[t].called
    /\ LET res == create_request(net)
       IN  /\ handle' = [handle EXCEPT ![t] =
                  IF res.ok THEN WaitingLoginHandle(res.record) ELSE @]
           /\ created' = [created EXCEPT ![t] =
                  [called |-> TRUE, net |-> net, ok |-> res.ok,
                   key |-> IF res.ok THEN res.record ELSE <<>>,
                   err |-> res.err,
                   steps |-> send_request_run(CreateRequestResponse, net).steps]]
    /\ posts' = [posts EXCEPT ![t] = Append(@,
           Post("createrequest",
                create_request_pairs(ReturnUrl, ServiceName,
                    requested_attributes(A.fields), wished_attributes(A.fields),
                    None, None, None)))]
    /\ binding' = [binding EXCEPT ![t] = A]
    /\ UNCHANGED <<fetched, observed, panicked, decodeVars, bindingVars, macroVars,
                   bodyVars, typeVars>>

\* TequilaRequest<A, WaitingLogin>::fetch_attributes(self, auth_check)
FetchAttributes(t, auth_check, net) ==
    /\ handle[t].state = "WaitingLogin"
    /\ LET res == fetch_attributes(binding[t], net)
       IN  /\ handle' = [handle EXCEPT ![t] =
                  IF res.ok THEN LoggedInHandle(@, res.record)
                  ELSE FailedFetchHandle(@)]
           /\ fetched' = [fetched EXCEPT ![t] =
                  [called |-> TRUE, auth_check |-> auth_check, net |-> net,
                   ok |-> res.ok, err |-> res.err,
                   steps |-> send_request_run(binding[t], net).steps]]
    /\ posts' = [posts EXCEPT ![t] = Append(@,
           Post("fetchattributes",
                fetch_attributes_pairs(handle[t].key, auth_check)))]
    /\ UNCHANGED <<binding, created, observed, panicked, decodeVars, bindingVars,
                   macroVars,
                   bodyVars, typeVars>>

\* TequilaRequest<A, LoggedIn>::attributes(&self)
Attributes(t) ==
    /\ handle[t].state = "LoggedIn"
    /\ observed[t] # handle[t].attributes
    /\ observed' = [observed EXCEPT ![t] = handle[t].attributes]
    /\ panicked' = (panicked \/ ~handle[t].attributes.some)
    /\ UNCHANGED <<handle, binding, created, fetched, posts, decodeVars, bindingVars,
                   macroVars,
                   bodyVars, typeVars>>

NextSession ==
    \/ \E t \in Tx, A \in SessionBindings, net \in CreateAnswers : New(t, A, net)
    \/ \E t \in Tx, c \in AuthChecks, net \in FetchAnswers : FetchAttributes(t, c, net)
    \/ \E t \in Tx : Attributes(t)

SpecSession == InitSession /\ [][NextSession]_vars

-----------------------------------------------------------------------------
(* Claims about the session (SpecSession).                                 *)

\* in every state: attributes are present exactly in the LoggedIn state, and
\* attributes() has never unwrapped None
AttributesIffLoggedIn ==
    /\ \A t \in Tx : handle[t].attributes.some <=> handle[t].state = "LoggedIn"
    /\ ~panicked

\* in every step: a handle becomes LoggedIn only from WaitingLogin, by the
\* first fetch of its transaction, and a LoggedIn handle does not change
LoggedInOnceAndForAll ==
    \A t \in Tx :
        /\ (handle[t].state # "LoggedIn" /\ handle'[t].state = "LoggedIn") =>
               /\ handle[t].state = "WaitingLogin"
               /\ ~fetched[t].called
               /\ fetched'[t].called
        /\ handle[t].state = "LoggedIn" => handle'[t] = handle[t]

\* C1: a handle's attributes are present if and only if it is LoggedIn, so
\* attributes() never unwraps None; a transaction's handle goes from
\* WaitingLogin to LoggedIn at most once and never leaves LoggedIn.
C1_PhaseInvariant == []AttributesIffLoggedIn /\ [][LoggedInOnceAndForAll]_vars

\* attributes() has returned the attributes of one LoggedIn handle while
\* another transaction is still WaitingLogin
C1_Witness ==
    \E t, u \in Tx :
        /\ handle[t].state = "LoggedIn"
        /\ observed[t].some
        /\ handle[u].state = "WaitingLogin"

FetchPosts(t) == {i \in 1..Len(posts[t]) : posts[t][i].route = "fetchattributes"}

\* C2: a transaction's handle issues at most one fetchattributes POST, and
\* after a failed fetch the transaction has no handle, neither WaitingLogin
\* nor LoggedIn.
C2_FetchConsumes ==
    \A t \in Tx :
        /\ Cardinality(FetchPosts(t)) <= 1
        /\ fetched[t].called <=> Cardinality(FetchPosts(t)) = 1
        /\ (fetched[t].called /\ ~fetched[t].ok) => handle[t].state = "None"

\* a fetch has failed on a handle that TequilaRequest::new had produced
C2_Witness ==
    \E t \in Tx :
        /\ created[t].ok
        /\ fetched[t].called
        /\ ~fetched[t].ok
        /\ fetched[t].err.kind = "MissingAttributes"

\* the non-empty lines of a text, and whether one of them has no "="
LinesOf(t) == filter_non_empty(split(t, LF))
LacksEq(line) == \A i \in 1..Len(line) : line[i] # EQ
\* the lines of a text that bind `key`
KeyLines(t) ==
    {i \in 1..Len(LinesOf(t)) :
        /\ Len(LinesOf(t)[i]) > Len(K_key)
        /\ SubSeq(LinesOf(t)[i], 1, Len(K_key) + 1) = K_key \o <<EQ>>}
LastKeyValue(t) ==
    LET i == CHOOSE j \in KeyLines(t) : \A k \in KeyLines(t) : k <= j
    IN  SubSeq(LinesOf(t)[i], Len(K_key) + 2, Len(LinesOf(t)[i]))

\* C3: TequilaRequest::new yields a WaitingLogin handle exactly when the
\* transport answered, every non-empty line of the answer has a "=" and some
\* line binds `key`; the handle's key is then the value of that entry;
\* otherwise new returns RequestError (transport) or InvalidResponse and no
\* handle exists.
C3_NewOutcome ==
    \A t \in Tx :
        created[t].called =>
            LET net == created[t].net
                good == /\ net.ok
                        /\ \A i \in 1..Len(LinesOf(net.text)) :
                               ~LacksEq(LinesOf(net.text)[i])
                        /\ KeyLines(net.text) # {}
            IN  /\ created[t].ok <=> good
                /\ good =>
                       /\ created[t].key = LastKeyValue(net.text)
                       /\ ~fetched[t].called =>
                              handle[t] = WaitingLoginHandle(LastKeyValue(net.text))
                /\ ~good =>
                       /\ handle[t] = NoHandle
                       /\ created[t].err =
                              IF net.ok THEN InvalidResponse ELSE RequestError

\* new has produced a handle from an answer with two `key` lines, and has
\* failed on an answer that has a `key` line and a line without "="
C3_Witness ==
    \E t, u \in Tx :
        /\ created[t].ok
        /\ Cardinality(KeyLines(created[t].net.text)) = 2
        /\ handle[t].state = "WaitingLogin"
        /\ created[u].called
        /\ ~created[u].ok
        /\ created[u].net.ok
        /\ KeyLines(created[u].net.text) # {}

\* C4: after a successful fetch the LoggedIn handle has the key that new
\* returned, which is the key sent as `key=` in the fetchattributes body, and
\* its attributes are the record the binding built from the decoded answer.
C4_KeyUnchanged ==
    \A t \in Tx :
        (fetched[t].called /\ fetched[t].ok) =>
            /\ handle[t].state = "LoggedIn"
            /\ handle[t].key = created[t].key
            /\ posts[t][2].body =
                   <<LF>> \o K_key \o <<EQ>> \o handle[t].key
                   \o <<LF>> \o K_auth_check \o <<EQ>> \o fetched[t].auth_check
            /\ handle[t].attributes =
                   Some(from_tequila_attributes(
                            binding[t].fields,
                            build_hashmap(fetched[t].net.text).map).record)

\* a fetch has succeeded for a record with a Vec field, on an answer that
\* holds both of its keys
C4_Witness ==
    \E t \in Tx :
        /\ fetched[t].called
        /\ fetched[t].ok
        /\ Len(binding[t].fields) = 2
        /\ Cardinality(build_hashmap(fetched[t].net.text).map) = 2

-----------------------------------------------------------------------------
(* The derive macro run by several tasks of one process, which share       *)
(* CONFIG.  A task stops between two accesses to CONFIG or the network.    *)

T_String == [is_path |-> TRUE, leading_colon |-> FALSE,
             segments |-> << <<"S", "t", "r", "i", "n", "g">> >>]
T_Option == [is_path |-> TRUE, leading_colon |-> FALSE,
             segments |-> << <<"O", "p", "t", "i", "o", "n">> >>]
T_Vec == [is_path |-> TRUE, leading_colon |-> FALSE,
          segments |-> << <<"V", "e", "c">> >>]

NoAttr == [kind |-> "none", value |-> <<>>]
Lit(key) == [kind |-> "lit", value |-> key]

\* the structs the macro is applied to: one whose keys a and b a schema may
\* hold, one whose field a reads the key c that no schema holds, one marked
\* no_check
Structs ==
    { [attr |-> "none",
       fields |-> << [ident |-> Some(<<"a">>), attr |-> NoAttr, ty |-> T_String],
                     [ident |-> Some(<<"x">>), attr |-> Lit(<<"b">>), ty |-> T_Option] >>],
      [attr |-> "none",
       fields |-> << [ident |-> Some(<<"a">>), attr |-> Lit(<<"c">>), ty |-> T_String] >>],
      [attr |-> "no_check",
       fields |-> << [ident |-> Some(<<"c">>), attr |-> NoAttr, ty |-> T_Vec] >>] }

\* answers to getconfig with every label, the attributes line being v
FullConfig(v) ==
    [i \in 1..Len(ConfigLabels) |->
        [label |-> ConfigLabels[i],
         value |-> IF ConfigLabels[i] = "Supported user attributes "
                   THEN v ELSE <<SPACE, "x">>]]

\* lines without the i-th one
Without(lines, i) == SubSeq(lines, 1, i - 1) \o SubSeq(lines, i + 1, Len(lines))

AttributeLines == { <<SPACE, "a", SPACE, "b">>, <<SPACE, "a">> }

\* the labels an answer may lack: the first one from_string extracts, the
\* attributes line and the last one
LackedLabels == {1, 8, Len(ConfigLabels)}

ConfigAnswers ==
    {GetError}
    \cup {GetLines(FullConfig(v)) : v \in AttributeLines}
    \cup {GetLines(Without(FullConfig(<<SPACE, "a">>), i)) : i \in LackedLabels}

InitMacro ==
    InitMacroVars /\ IdleDecode /\ IdleBinding /\ IdleSession /\ IdleBody /\ IdleType

CurrentField(t) == input[t].fields[idx[t]]

\* the field under examination is collected, with the errors it emits
Collect(t, cfg) ==
    /\ collected' = [collected EXCEPT ![t] = Append(@, make_field(CurrentField(t)))]
    /\ diags' = [diags EXCEPT ![t] = @ \cup field_errors(input[t], CurrentField(t), cfg)]
    /\ idx' = [idx EXCEPT ![t] = @ + 1]

\* a task enters derive_from_tequila_attributes with a struct; a task is one
\* invocation of the macro
StartDerive(t, st) ==
    /\ pc[t] = "idle"
    /\ pc' = [pc EXCEPT ![t] = "field"]
    /\ input' = [input EXCEPT ![t] = st]
    /\ idx' = [idx EXCEPT ![t] = 1]
    /\ collected' = [collected EXCEPT ![t] = <<>>]
    /\ diags' = [diags EXCEPT ![t] =
           IF st.attr \in {"none", "no_check"} THEN {}
           ELSE {OtherError("unrecognized attribute")}]
    /\ warned' = [warned EXCEPT ![t] = FALSE]
    /\ output' = [output EXCEPT ![t] = NoOutput]
    /\ UNCHANGED <<CONFIG, config, fetches, returned, failed_call,
                   decodeVars, bindingVars, sessionVars,
                   bodyVars, typeVars>>

\* a field of a struct marked no_check: no call of get_config
ExamineUnchecked(t) ==
    /\ pc[t] = "field"
    /\ idx[t] <= Len(input[t].fields)
    /\ CurrentField(t).attr.kind \in {"none", "lit"}
    /\ ~check_config(input[t])
    /\ Collect(t, NoConfig)
    /\ UNCHANGED <<CONFIG, pc, input, warned, config, output, fetches, returned,
                   failed_call, decodeVars, bindingVars, sessionVars,
                   bodyVars, typeVars>>

\* get_config finds CONFIG set and returns its value
ExamineCached(t) ==
    /\ pc[t] = "field"
    /\ idx[t] <= Len(input[t].fields)
    /\ CurrentField(t).attr.kind \in {"none", "lit"}
    /\ check_config(input[t])
    /\ CONFIG.set
    /\ returned' = returned \cup {CONFIG.value}
    /\ Collect(t, CONFIG.value)
    /\ UNCHANGED <<CONFIG, pc, input, warned, config, output, fetches,
                   failed_call, decodeVars, bindingVars, sessionVars,
                   bodyVars, typeVars>>

\* get_config finds CONFIG unset and goes on to fetch
FindUnset(t) ==
    /\ pc[t] = "field"
    /\ idx[t] <= Len(input[t].fields)
    /\ CurrentField(t).attr.kind \in {"none", "lit"}
    /\ check_config(input[t])
    /\ ~CONFIG.set
    /\ pc' = [pc EXCEPT ![t] = "fetch"]
    /\ UNCHANGED <<CONFIG, input, idx, collected, diags, warned, config, output,
                   fetches, returned, failed_call,
                   decodeVars, bindingVars, sessionVars,
                   bodyVars, typeVars>>

\* get_config: TequilaConfig::fetch, and the warning when it failed
Fetch(t, net) ==
    /\ pc[t] = "fetch"
    /\ config' = [config EXCEPT ![t] = fetch(net)]
    /\ fetches' = fetches + 1
    /\ warned' = [warned EXCEPT ![t] = @ \/ ~fetch(net).ok]
    /\ pc' = [pc EXCEPT ![t] = "init"]
    /\ UNCHANGED <<CONFIG, input, idx, collected, diags, output, returned,
                   failed_call, decodeVars, bindingVars, sessionVars,
                   bodyVars, typeVars>>

\* get_config: CONFIG.get_or_init(|| config.ok()), whose value it returns
GetOrInit(t) ==
    /\ pc[t] = "init"
    /\ CONFIG' = get_or_init(CONFIG, ok(config[t]))
    /\ returned' = returned \cup {CONFIG'.value}
    /\ failed_call' = (failed_call \/ ~config[t].ok)
    /\ Collect(t, CONFIG'.value)
    /\ pc' = [pc EXCEPT ![t] = "field"]
    /\ UNCHANGED <<input, warned, config, output, fetches,
                   decodeVars, bindingVars, sessionVars,
                   bodyVars, typeVars>>

\* every field is examined: the invocation returns
Finish(t) ==
    /\ pc[t] = "field"
    /\ idx[t] > Len(input[t].fields)
    /\ output' = [output EXCEPT ![t] = derive_output(collected[t], diags[t])]
    /\ pc' = [pc EXCEPT ![t] = "done"]
    /\ UNCHANGED <<CONFIG, input, idx, collected, diags, warned, config, fetches,
                   returned, failed_call, decodeVars, bindingVars, sessionVars,
                   bodyVars, typeVars>>

NextMacro ==
    \/ \E t \in Tasks, st \in Structs : StartDerive(t, st)
    \/ \E t \in Tasks : ExamineUnchecked(t)
    \/ \E t \in Tasks : ExamineCached(t)
    \/ \E t \in Tasks : FindUnset(t)
    \/ \E t \in Tasks, net \in ConfigAnswers : Fetch(t, net)
    \/ \E t \in Tasks : GetOrInit(t)
    \/ \E t \in Tasks : Finish(t)

SpecMacro == InitMacro /\ [][NextMacro]_vars

-----------------------------------------------------------------------------
(* Claims about the schema cache (SpecMacro).                              *)

\* C5: over the process lifetime at most one network fetch of getconfig is
\* performed, in every interleaving of the tasks that call get_config.
C5_SingleFetch == fetches <= 1

\* in every state: the calls of get_config that have returned all returned
\* the same value, which is the value CONFIG holds
OneOutcome ==
    /\ Cardinality(returned) <= 1
    /\ returned # {} => (CONFIG.set /\ returned = {CONFIG.value})

\* in every step: a set CONFIG does not change
SetOnce == CONFIG.set => CONFIG' = CONFIG

\* C6: every call of get_config in the process returns the same outcome, the
\* same schema or the same absence, whatever the callers' own fetches
\* produced, and CONFIG is never changed once it is set.
C6_SingleValue == []OneOutcome /\ [][SetOnce]_vars

\* two invocations have finished, the own fetch of one having succeeded and
\* that of the other having failed
C6_Witness ==
    \E t, u \in Tasks :
        /\ pc[t] = "done" /\ config[t].ok
        /\ pc[u] = "done" /\ warned[u]
        /\ Cardinality(returned) = 1

Absent == [set |-> TRUE, value |-> NoConfig]
InvalidDiags(t) == {d \in diags[t] : d.kind = "Invalid attribute"}

\* C7: a failed fetch makes get_config emit the warning and cache absence,
\* which stays; with the schema absent no field gets an invalid-attribute
\* error and the invocation produces the binding.
C7_FailureSticky ==
    /\ \A t \in Tasks : (pc[t] = "init" /\ ~config[t].ok) => warned[t]
    /\ failed_call => (CONFIG = Absent /\ returned = {NoConfig})
    /\ CONFIG = Absent =>
           \A t \in Tasks :
               /\ InvalidDiags(t) = {}
               /\ pc[t] = "done" => output[t].kind = "binding"

\* C7 holds of the runs in which get_config fetched once
C7_WhenSingleFetch == fetches <= 1 => C7_FailureSticky

-----------------------------------------------------------------------------
(* create_request applied to its arguments: the body it posts.             *)

KeyLists == UNION {[1..n -> AttributeKeys] : n \in 0..MaxAttrs}
Optional(v) == {None, Some(v)}

CreateArgs ==
    [url : {ReturnUrl}, service : {ServiceName},
     request : KeyLists, wish : KeyLists,
     require : Optional(<<"r">>), allow : Optional(<<"o">>),
     language : Optional(<<"e", "n">>)]

InitBody ==
    /\ args \in CreateArgs
    /\ sent = NotSent
    /\ IdleDecode /\ IdleBinding /\ IdleSession /\ IdleMacro /\ IdleType

\* create_request up to the POST of send_request
CreateRequest ==
    /\ ~sent.run
    /\ LET pairs == create_request_pairs(args.url, args.service, args.request,
                        args.wish, args.require, args.allow, args.language)
       IN  sent' = [run |-> TRUE, pairs |-> pairs,
                    body |-> Post("createrequest", pairs).body]
    /\ UNCHANGED <<args, decodeVars, bindingVars, sessionVars, macroVars, typeVars>>

SpecBody == InitBody /\ [][CreateRequest]_vars

-----------------------------------------------------------------------------
(* Claims about the body of create_request (SpecBody).                     *)

\* the lines the body may hold, in order, each with whether it is sent
BodyTable ==
    << [key |-> K_urlaccess, value |-> args.url, present |-> TRUE],
       [key |-> K_service, value |-> args.service, present |-> TRUE],
       [key |-> K_mode_auth_check, value |-> <<"1">>, present |-> TRUE],
       [key |-> K_request, value |-> join(args.request, <<COMMA>>),
        present |-> Len(args.request) > 0],
       [key |-> K_wish, value |-> join(args.wish, <<COMMA>>),
        present |-> Len(args.wish) > 0],
       [key |-> K_require, value |-> args.require.value,
        present |-> args.require.some],
       [key |-> K_allow, value |-> args.allow.value, present |-> args.allow.some],
       [key |-> K_language, value |-> args.language.value,
        present |-> args.language.some] >>

PresentRows == {i \in 1..Len(BodyTable) : BodyTable[i].present}
\* the table row that the n-th line of the body is to hold
RowOf(n) == CHOOSE i \in PresentRows :
                Cardinality({j \in PresentRows : j <= i}) = n
BodyLines == split(sent.body, LF)

\* C11: the body is "\n{key}={value}" for urlaccess, service and
\* mode_auth_check=1, then request and wish each iff its list is non-empty
\* (the keys joined by ","), then require, allow and language each iff
\* supplied, in this order; no other line, and no key twice.
C11_Body ==
    sent.run =>
        /\ Len(BodyLines) = Cardinality(PresentRows) + 1
        /\ BodyLines[1] = <<>>
        /\ \A n \in 1..Cardinality(PresentRows) :
               BodyLines[n + 1] =
                   BodyTable[RowOf(n)].key \o <<EQ>> \o BodyTable[RowOf(n)].value
        /\ \A m, n \in 1..Len(sent.pairs) :
               sent.pairs[m][1] = sent.pairs[n][1] => m = n
        /\ LET request == {i \in 2..Len(BodyLines) :
                              split_once(BodyLines[i], EQ).key = K_request}
           IN  \A i \in request :
                   split(split_once(BodyLines[i], EQ).value, COMMA) = args.request

\* create_request has posted a body with a request line of two keys, no wish
\* line and a language line
C11_Witness ==
    /\ sent.run
    /\ Len(args.request) = 2
    /\ args.wish = <<>>
    /\ ~args.require.some
    /\ args.language.some
    /\ Len(BodyLines) = 6

-----------------------------------------------------------------------------
(* The classification of one field by its declared type.                   *)

S_std == <<"s", "t", "d">>
S_core == <<"c", "o", "r", "e">>
S_alloc == <<"a", "l", "l", "o", "c">>
S_option == <<"o", "p", "t", "i", "o", "n">>
S_vec == <<"v", "e", "c">>
S_Option == <<"O", "p", "t", "i", "o", "n">>
S_Vec == <<"V", "e", "c">>
S_String == <<"S", "t", "r", "i", "n", "g">>

Segments == {S_std, S_core, S_alloc, S_option, S_vec, S_Option, S_Vec, S_String}

\* the declared types: every path of these segments, with and without a
\* leading ::, and a type that is no path (a reference, a tuple, an array)
DeclaredTypes ==
    {NoType}
    \cup [is_path : {TRUE}, leading_colon : BOOLEAN,
          segments : UNION {[1..n -> Segments] : n \in 1..MaxSegments}]

InitType ==
    /\ declared \in DeclaredTypes
    /\ classified = NotClassified
    /\ IdleDecode /\ IdleBinding /\ IdleSession /\ IdleMacro /\ IdleBody

\* the Field construction for a field of the declared type, in a struct
\* marked no_check
Classify ==
    /\ ~classified.run
    /\ LET f == [ident |-> Some(<<"a">>), attr |-> NoAttr, ty |-> declared]
           st == [attr |-> "no_check", fields |-> <<f>>]
       IN  classified' = [run |-> TRUE,
                          type |-> make_field(f).type,
                          errors |-> field_errors(st, f, NoConfig)]
    /\ UNCHANGED <<declared, decodeVars, bindingVars, sessionVars, macroVars,
                   bodyVars>>

SpecType == InitType /\ [][Classify]_vars

-----------------------------------------------------------------------------
(* Claims about the classification (SpecType).                             *)

\* the spellings the generator lists
Bare(seg) == declared.is_path /\ declared.segments = <<seg>>
Qualified(a, b, c) ==
    declared.is_path /\ declared.leading_colon /\ declared.segments = <<a, b, c>>

OptionSpelling ==
    \/ Bare(S_Option)
    \/ Qualified(S_std, S_option, S_Option)
    \/ Qualified(S_core, S_option, S_Option)
VecSpelling ==
    \/ Bare(S_Vec)
    \/ Qualified(S_std, S_vec, S_Vec)
    \/ Qualified(S_alloc, S_vec, S_Vec)

Rejected == \E e \in classified.errors : e.kind = "Unsupported type"

\* C12: a field declared Option, ::std::option::Option or
\* ::core::option::Option is Optional; one declared Vec, ::std::vec::Vec or
\* ::alloc::vec::Vec is Multivalued; a field of any other path is Mandatory;
\* a field whose type is no path is rejected with an error.
C12_Classification ==
    classified.run =>
        /\ OptionSpelling => classified.type = "Option"
        /\ VecSpelling => classified.type = "Vec"
        /\ (declared.is_path /\ ~OptionSpelling /\ ~VecSpelling) =>
               classified.type = "Other"
        /\ Rejected <=> ~declared.is_path

\* C12 without the spelling ::std::vec::Vec
C12_ButStdVec ==
    (classified.run /\ ~Qualified(S_std, S_vec, S_Vec)) =>
        /\ OptionSpelling => classified.type = "Option"
        /\ VecSpelling => classified.type = "Vec"
        /\ (declared.is_path /\ ~OptionSpelling /\ ~VecSpelling) =>
               classified.type = "Other"
        /\ Rejected <=> ~declared.is_path

-----------------------------------------------------------------------------
(* Claims about the check of the keys against the schema (SpecMacro).      *)

\* the fields of its struct that task t has examined
Examined(t) == 1..(idx[t] - 1)
\* the key of a field: the text of its #[tequila("...")], else its name
ResolvedKey(f) == IF f.attr.kind = "lit" THEN f.attr.value ELSE f.ident.value
Vocabulary == {CONFIG.value.cfg.attributes[i] :
                  i \in 1..Len(CONFIG.value.cfg.attributes)}

\* C13: with the schema available, a struct not marked no_check gets an
\* invalid-attribute error, listing the schema's attributes, for every
\* examined field whose key is not among them and for no other field; a
\* struct marked no_check gets none; an invocation with such an error
\* generates no binding, and a generated binding has the fields as declared.
C13_SchemaCheck ==
    (CONFIG.set /\ CONFIG.value.some) =>
        \A t \in Tasks :
            /\ check_config(input[t]) =>
                   \A i \in Examined(t) :
                       LET key == ResolvedKey(input[t].fields[i])
                       IN  /\ key \notin Vocabulary <=>
                                  \E d \in InvalidDiags(t) : d.key = key
                           /\ \A d \in InvalidDiags(t) :
                                  d.note = CONFIG.value.cfg.attributes
            /\ InvalidDiags(t) \subseteq
                   {InvalidAttribute(ResolvedKey(input[t].fields[i]),
                                     CONFIG.value.cfg.attributes) :
                        i \in Examined(t)}
            /\ ~check_config(input[t]) => InvalidDiags(t) = {}
            /\ (pc[t] = "done" /\ InvalidDiags(t) # {}) =>
                   output[t].kind = "errors"
            /\ (pc[t] = "done" /\ output[t].kind = "binding") =>
                   /\ Len(output[t].fields) = Len(input[t].fields)
                   /\ \A i \in 1..Len(input[t].fields) :
                          output[t].fields[i].attribute
                              = ResolvedKey(input[t].fields[i])

\* with the schema available, one invocation has ended with an error for a
\* field whose name is in the schema and whose key is not, and another has
\* generated the binding of a checked struct with two fields
C13_Witness ==
    /\ CONFIG.set /\ CONFIG.value.some
    /\ \E t, u \in Tasks :
           /\ pc[t] = "done"
           /\ input[t].fields[1].attr.kind = "lit"
           /\ InvalidDiags(t) # {}
           /\ pc[u] = "done"
           /\ check_config(input[u])
           /\ Len(input[u].fields) = 2
           /\ output[u].kind = "binding"

-----------------------------------------------------------------------------
(* Claims about the order of the failures of one API call (SpecSession).   *)

\* the calls of send_request a transaction has made: the one of
\* create_request and the one of fetch_attributes
Calls(t) ==
    (IF created[t].called THEN {created[t]} ELSE {})
        \cup (IF fetched[t].called
              THEN {[called |-> TRUE, net |-> fetched[t].net, ok |-> fetched[t].ok,
                     key |-> <<>>, err |-> fetched[t].err,
                     steps |-> fetched[t].steps]}
              ELSE {})
NumberOfCalls(t) ==
    (IF created[t].called THEN 1 ELSE 0) + (IF fetched[t].called THEN 1 ELSE 0)
\* the answer has a non-empty line without "="
Undecodable(net) ==
    \E i \in 1..Len(LinesOf(net.text)) : LacksEq(LinesOf(net.text)[i])
Ran(call, step) == \E i \in 1..Len(call.steps) : call.steps[i] = step

\* C14: every call of send_request issues one POST; when the transport
\* fails it returns RequestError and neither decodes nor constructs; when the
\* answer has a non-empty line without "=" it decodes, returns
\* InvalidResponse and does not construct; otherwise it decodes and then
\* constructs; MissingAttributes is returned only after a successful decode.
C14_Precedence ==
    \A t \in Tx :
        /\ Len(posts[t]) = NumberOfCalls(t)
        /\ \A call \in Calls(t) :
               /\ ~call.net.ok =>
                      /\ ~call.ok /\ call.err = RequestError
                      /\ call.steps = <<>>
               /\ (call.net.ok /\ Undecodable(call.net)) =>
                      /\ ~call.ok /\ call.err = InvalidResponse
                      /\ call.steps = <<"build_hashmap">>
               /\ (call.net.ok /\ ~Undecodable(call.net)) =>
                      call.steps = <<"build_hashmap", "from_tequila_attributes">>
               /\ (~call.ok /\ call.err.kind = "MissingAttributes") =>
                      /\ call.net.ok /\ ~Undecodable(call.net)
                      /\ Ran(call, "from_tequila_attributes")

\* one fetch has returned MissingAttributes for an answer that decoded, and
\* another has returned InvalidResponse, without constructing, for an answer
\* with a line without "="
C14_Witness ==
    \E t, u \in Tx :
        /\ fetched[t].called /\ ~fetched[t].ok
        /\ fetched[t].err.kind = "MissingAttributes"
        /\ Ran(fetched[t], "from_tequila_attributes")
        /\ fetched[u].called /\ ~fetched[u].ok
        /\ fetched[u].net.ok /\ Undecodable(fetched[u].net)
        /\ fetched[u].err = InvalidResponse
        /\ ~Ran(fetched[u], "from_tequila_attributes")
        /\ Cardinality(FetchPosts(u)) = 1

=============================================================================
